---- MODULE Spec2Model ----
(***************************************************************************)
(* A model of chalice/deploy/executor.py: the Executor that interprets a   *)
(* deployment plan (an ordered list of instructions) against a variable    *)
(* store, an operation provider (the AWS client) and the list of resource  *)
(* records, and the VariableResolver it uses.                              *)
(*                                                                         *)
(* Python values are modelled structurally:                                *)
(*   a str is a sequence of tokens (chunks of characters; ":" is always a  *)
(*   token of its own), a dict is the sequence of its items in insertion   *)
(*   order, a list is a sequence, None is a value of its own, and the      *)
(*   planner's Variable / StringFormat and models.Placeholder are leaves.  *)
(* DisplayOnlyExecutor, which writes a plan out instead of running it, is  *)
(* modelled by its own actions over the same variables.                    *)
(* Names (variable names, dict keys, method names, class names) are        *)
(* strings.                                                                *)
(***************************************************************************)
EXTENDS Integers, Sequences, FiniteSets, TLC

VARIABLES
    plan,                  \* plan.instructions: a sequence of instruction objects (ids)
    messages,              \* plan.messages: id(instruction) -> message
    pc,                    \* position of the for loop of Executor.execute
    err,                   \* the exception that left execute, or NoErr
    variables,             \* Executor.variables
    heap,                  \* the payload dicts allocated so far (reference -> dict)
    resource_values,       \* BaseExecutor.resource_values: a list of references
    resource_value_index,  \* Executor._resource_value_index: name -> reference
    ui,                    \* what self._ui.write has received, in order
    client,                \* the invocations self._client has received, in order
    trace,                 \* history: every effect, in the order it happened
    stores,                \* history: the variable store before each instruction
    spillover_values,      \* the local spillover_values of DisplayOnlyExecutor.execute
    executions             \* the calls of execute on this instance so far

vars == <<plan, messages, pc, err, variables, heap, resource_values,
          resource_value_index, ui, client, trace, stores, spillover_values,
          executions>>

-----------------------------------------------------------------------------
(* Python values *)

Str(s) == [t |-> "str", s |-> s]
PyNone == [t |-> "none"]
Variable(name) == [t |-> "var", name |-> name]
StringFormat(template, names) == [t |-> "fmt", template |-> template, variables |-> names]
Placeholder(which) == [t |-> "ph", which |-> which]
Dict(items) == [t |-> "dict", items |-> items]
List(items) == [t |-> "list", items |-> items]
\* a bytes object, of which only the length is kept
Bytes(len) == [t |-> "bytes", len |-> len]
Item(k, v) == [k |-> k, v |-> v]

\* the pieces of a format template: literal text, or a {slot}
Lit(s) == [slot |-> FALSE, s |-> s, name |-> ""]
Slot(name) == [slot |-> TRUE, s |-> <<>>, name |-> name]

(* dict operations, on the sequence of items *)
DictKeys(items) == {items[i].k : i \in 1..Len(items)}
DictHas(items, k) == k \in DictKeys(items)
DictGet(items, k) == items[CHOOSE i \in 1..Len(items) : items[i].k = k].v
\* d[k] = v: an existing key keeps its place and takes the value, a new key is appended
DictSet(items, k, v) ==
    IF DictHas(items, k)
    THEN [i \in 1..Len(items) |-> IF items[i].k = k THEN Item(k, v) ELSE items[i]]
    ELSE Append(items, Item(k, v))
\* d.update(other)
RECURSIVE DictUpdate(_, _)
DictUpdate(items, other) ==
    IF other = <<>> THEN items
    ELSE DictUpdate(DictSet(items, Head(other).k, Head(other).v), Tail(other))
\* str, None are hashable; dict and list are not (the planner's classes are)
Hashable(v) == v.t \notin {"dict", "list"}

-----------------------------------------------------------------------------
(* Exceptions *)

NoErr == [type |-> "none"]
KeyError(k) == [type |-> "KeyError", key |-> k]
IndexError == [type |-> "IndexError"]
TypeError == [type |-> "TypeError"]
AttributeError(name) == [type |-> "AttributeError", name |-> name]
RuntimeError(variant) == [type |-> "RuntimeError", variant |-> variant]
ValueError(function_name) == [type |-> "ValueError", function_name |-> function_name]
UnresolvedValueError(key, value, method_name) ==
    [type |-> "UnresolvedValueError", key |-> key, value |-> value,
     method_name |-> method_name]
\* what the operation provider raises (network, auth, throttling)
ClientError(method_name) == [type |-> "ClientError", method_name |-> method_name]

\* the result of a computation that may raise
Ok(v) == [err |-> NoErr, val |-> v]
Raise(e) == [err |-> e, val |-> PyNone]

-----------------------------------------------------------------------------
(* str(), repr() and str.format *)

RECURSIVE Repr(_)
RECURSIVE ReprItems(_)
RECURSIVE ReprElems(_)
ReprItems(items) ==
    IF items = <<>> THEN <<>>
    ELSE <<"'", Head(items).k, "'", ": ">> \o Repr(Head(items).v)
         \o (IF Len(items) > 1 THEN <<", ">> ELSE <<>>) \o ReprItems(Tail(items))
ReprElems(items) ==
    IF items = <<>> THEN <<>>
    ELSE Repr(Head(items)) \o (IF Len(items) > 1 THEN <<", ">> ELSE <<>>)
         \o ReprElems(Tail(items))
Repr(v) ==
    CASE v.t = "str" -> <<"'">> \o v.s \o <<"'">>
      [] v.t = "none" -> <<"None">>
      [] v.t = "dict" -> <<"{">> \o ReprItems(v.items) \o <<"}">>
      [] v.t = "list" -> <<"[">> \o ReprElems(v.items) \o <<"]">>
      [] v.t = "bytes" -> <<"b'">> \o [j \in 1..v.len |-> "x"] \o <<"'">>
      [] OTHER -> <<"<", v.t, ">">>

PyStr(v) == IF v.t = "str" THEN v.s ELSE Repr(v)

\* template.format(**v): every slot is looked up in v
RECURSIVE Format(_, _)
Format(template, v) ==
    IF template = <<>> THEN Ok(<<>>)
    ELSE LET p == Head(template)
             rest == Format(Tail(template), v)
         IN  IF p.slot /\ p.name \notin DOMAIN v THEN Raise(KeyError(p.name))
             ELSE IF rest.err # NoErr THEN rest
             ELSE Ok((IF p.slot THEN PyStr(v[p.name]) ELSE p.s) \o rest.val)

-----------------------------------------------------------------------------
(* VariableResolver *)

\* {k: variables[k] for k in value.variables}: the first missing name raises
RECURSIVE FirstMissing(_, _)
FirstMissing(names, store) ==
    IF names = <<>> THEN ""
    ELSE IF Head(names) \notin DOMAIN store THEN Head(names)
    ELSE FirstMissing(Tail(names), store)

RECURSIVE resolve_variables(_, _)
RECURSIVE resolve_dict_innermost(_, _)
\* resolve_dict with a slip: the key is attached only where it is still empty
resolve_dict_innermost(items, store) ==
    IF items = <<>> THEN Ok(<<>>)
    ELSE LET k == Head(items).k
             r == resolve_variables(Head(items).v, store)
         IN  IF r.err # NoErr
             THEN IF r.err.type = "UnresolvedValueError" /\ r.err.key = ""
                  THEN Raise([r.err EXCEPT !.key = k])
                  ELSE r
             ELSE LET rest == resolve_dict_innermost(Tail(items), store)
                  IN  IF rest.err # NoErr THEN rest
                      ELSE Ok(<<Item(k, r.val)>> \o rest.val)

RECURSIVE resolve_dict(_, _)
RECURSIVE resolve_list(_, _)

\* the branch for a dict: every value in turn; an UnresolvedValueError on its way
\* out takes the key of the item it came from
resolve_dict(items, store) ==
    IF items = <<>> THEN Ok(<<>>)
    ELSE LET k == Head(items).k
             r == resolve_variables(Head(items).v, store)
         IN  IF r.err # NoErr
             THEN IF r.err.type = "UnresolvedValueError"
                  THEN Raise([r.err EXCEPT !.key = k])
                  ELSE r
             ELSE LET rest == resolve_dict(Tail(items), store)
                  IN  IF rest.err # NoErr THEN rest
                      ELSE Ok(<<Item(k, r.val)>> \o rest.val)

RECURSIVE resolve_list_reversed(_, _)
\* resolve_list with a slip: the elements come out in reverse
resolve_list_reversed(items, store) ==
    IF items = <<>> THEN Ok(<<>>)
    ELSE LET r == resolve_variables(Head(items), store)
         IN  IF r.err # NoErr THEN r
             ELSE LET rest == resolve_list_reversed(Tail(items), store)
                  IN  IF rest.err # NoErr THEN rest
                      ELSE Ok(rest.val \o <<r.val>>)

\* the branch for a list: every element in turn, errors pass through
resolve_list(items, store) ==
    IF items = <<>> THEN Ok(<<>>)
    ELSE LET r == resolve_variables(Head(items), store)
         IN  IF r.err # NoErr THEN r
             ELSE LET rest == resolve_list(Tail(items), store)
                  IN  IF rest.err # NoErr THEN rest
                      ELSE Ok(<<r.val>> \o rest.val)

resolve_variables(value, store) ==
    CASE value.t = "var" ->
            IF value.name \in DOMAIN store THEN Ok(store[value.name])
            ELSE Raise(KeyError(value.name))
      [] value.t = "fmt" ->
            LET missing == FirstMissing(value.variables, store)
                v == [k \in {value.variables[i] : i \in 1..Len(value.variables)}
                        |-> store[k]]
            IN  IF missing # "" THEN Raise(KeyError(missing))
                ELSE LET f == Format(value.template, v)
                     IN  IF f.err # NoErr THEN f ELSE Ok(Str(f.val))
      [] value.t = "ph" -> Raise(UnresolvedValueError("", value, ""))
      [] value.t = "dict" ->
            LET r == resolve_dict(value.items, store)
            IN  IF r.err # NoErr THEN r ELSE Ok(Dict(r.val))
      [] value.t = "list" ->
            LET r == resolve_list(value.items, store)
            IN  IF r.err # NoErr THEN r ELSE Ok(List(r.val))
      [] OTHER -> Ok(value)

-----------------------------------------------------------------------------
(* Instructions (chalice.deploy.models); id is the identity of the object *)

NoOutputVar == "<None>"      \* APICall.output_var = None

APICall(id, method_name, params, output_var) ==
    [id |-> id, cls |-> "APICall", method_name |-> method_name, params |-> params,
     output_var |-> output_var]
CopyVariable(id, from_var, to_var) ==
    [id |-> id, cls |-> "CopyVariable", from_var |-> from_var, to_var |-> to_var]
StoreValue(id, name, value) ==
    [id |-> id, cls |-> "StoreValue", name |-> name, value |-> value]
RecordResourceVariable(id, resource_type, resource_name, name, variable_name) ==
    [id |-> id, cls |-> "RecordResourceVariable", resource_type |-> resource_type,
     resource_name |-> resource_name, name |-> name, variable_name |-> variable_name]
RecordResourceValue(id, resource_type, resource_name, name, value) ==
    [id |-> id, cls |-> "RecordResourceValue", resource_type |-> resource_type,
     resource_name |-> resource_name, name |-> name, value |-> value]
JPSearch(id, expression, input_var, output_var) ==
    [id |-> id, cls |-> "JPSearch", expression |-> expression, input_var |-> input_var,
     output_var |-> output_var]
BuiltinFunction(id, function_name, args, output_var) ==
    [id |-> id, cls |-> "BuiltinFunction", function_name |-> function_name,
     args |-> args, output_var |-> output_var]
\* an instruction of a class the executor has no _do_ method for
OtherInstruction(id, cls) == [id |-> id, cls |-> cls]

-----------------------------------------------------------------------------
(* The effect of one handler: the exception it raised (or NoErr), the stores as
   it left them, and what it did, in order *)

Event(kind, name, value) == [kind |-> kind, name |-> name, value |-> value]

Effect(e, store, h, values, index, events) ==
    [err |-> e, variables |-> store, heap |-> h, resource_values |-> values,
     resource_value_index |-> index, events |-> events]

\* the handler raised before it changed anything of the executor
Raised(e, events) ==
    Effect(e, variables, heap, resource_values, resource_value_index, events)

\* SetVar with a slip: the names bound to the object that name was bound to
\* follow the write, as they would if the object were changed in place
SetVarShared(store, name, value) ==
    [n \in DOMAIN store \cup {name} |->
        IF n = name \/ (name \in DOMAIN store /\ store[n] = store[name])
        THEN value ELSE store[n]]

\* self.variables[name] = value
SetVar(store, name, value) ==
    [n \in DOMAIN store \cup {name} |-> IF n = name THEN value ELSE store[n]]

WroteVariable(name, value, events) ==
    Effect(NoErr, SetVar(variables, name, value), heap, resource_values,
           resource_value_index, Append(events, Event("setvar", name, value)))

-----------------------------------------------------------------------------
(* Executor *)

\* _resolve_variables with a slip: the exception passes as it is
resolve_variables_bare(api_call) == resolve_variables(api_call.params, variables)

_resolve_variables(api_call) ==
    LET r == resolve_variables(api_call.params, variables)
    IN  IF r.err.type = "UnresolvedValueError"
        THEN Raise([r.err EXCEPT !.method_name = api_call.method_name])
        ELSE r

\* the methods self._client has
ClientMethods == {"create_function", "update_function", "get_role"}

\* do_apicall with a slip: a failed call leaves None in output_var
do_apicall_finally(instruction, outcome) ==
    LET final_kwargs == _resolve_variables(instruction)
        call == Event("call", instruction.method_name, final_kwargs.val)
    IN  IF final_kwargs.err # NoErr THEN Raised(final_kwargs.err, <<>>)
        ELSE IF instruction.method_name \notin ClientMethods
        THEN Raised(AttributeError(instruction.method_name), <<>>)
        ELSE IF outcome.err # NoErr
        THEN IF instruction.output_var # NoOutputVar
             THEN Effect(outcome.err, SetVar(variables, instruction.output_var, PyNone),
                         heap, resource_values, resource_value_index, <<call>>)
             ELSE Raised(outcome.err, <<call>>)
        ELSE IF instruction.output_var # NoOutputVar
        THEN WroteVariable(instruction.output_var, outcome.val, <<call>>)
        ELSE Raised(NoErr, <<call>>)

\* do_apicall with a slip: a call whose result nobody reads is not made
do_apicall_skip(instruction, outcome) ==
    LET final_kwargs == _resolve_variables(instruction)
        call == Event("call", instruction.method_name, final_kwargs.val)
    IN  IF final_kwargs.err # NoErr THEN Raised(final_kwargs.err, <<>>)
        ELSE IF instruction.method_name \notin ClientMethods
        THEN Raised(AttributeError(instruction.method_name), <<>>)
        ELSE IF instruction.output_var = NoOutputVar THEN Raised(NoErr, <<>>)
        ELSE IF outcome.err # NoErr THEN Raised(outcome.err, <<call>>)
        ELSE WroteVariable(instruction.output_var, outcome.val, <<call>>)

\* outcome: what method(**final_kwargs) does, its result or its exception
do_apicall(instruction, outcome) ==
    LET final_kwargs == _resolve_variables(instruction)
        call == Event("call", instruction.method_name, final_kwargs.val)
    IN  IF final_kwargs.err # NoErr THEN Raised(final_kwargs.err, <<>>)
        ELSE IF instruction.method_name \notin ClientMethods
        THEN Raised(AttributeError(instruction.method_name), <<>>)
        ELSE IF outcome.err # NoErr THEN Raised(outcome.err, <<call>>)
        ELSE IF instruction.output_var # NoOutputVar
        THEN WroteVariable(instruction.output_var, outcome.val, <<call>>)
        ELSE Raised(NoErr, <<call>>)

\* do_copyvariable with a slip: a missing source reads as None
do_copyvariable_default(instruction) ==
    IF instruction.from_var \notin DOMAIN variables
    THEN WroteVariable(instruction.to_var, PyNone, <<>>)
    ELSE WroteVariable(instruction.to_var, variables[instruction.from_var], <<>>)

do_copyvariable(instruction) ==
    IF instruction.from_var \notin DOMAIN variables
    THEN Raised(KeyError(instruction.from_var), <<>>)
    ELSE WroteVariable(instruction.to_var, variables[instruction.from_var], <<>>)

\* do_storevalue with a slip: the value is stored as the plan has it
do_storevalue_raw(instruction) ==
    WroteVariable(instruction.name, instruction.value, <<>>)

do_storevalue(instruction) ==
    LET result == resolve_variables(instruction.value, variables)
    IN  IF result.err # NoErr THEN Raised(result.err, <<>>)
        ELSE WroteVariable(instruction.name, result.val, <<>>)

\* {'name': ..., 'resource_type': ..., instruction.name: value}: a dict display,
\* where a key given again takes the later value
Payload(resource_name, resource_type, name, value) ==
    DictSet(DictSet(DictSet(<<>>, "name", resource_name),
                    "resource_type", resource_type),
            name, value)

\* variants of add_to_deployed_values with a slip in them
add_to_deployed_values_append(payload) ==
    LET key == DictGet(payload, "name")
        ref == Len(heap) + 1
    IN  Effect(NoErr, variables,
               Append(heap, payload),
               Append(resource_values, ref),
               [k \in DOMAIN resource_value_index \cup {key} |->
                   IF k = key THEN ref ELSE resource_value_index[k]],
               <<Event("record", "", Dict(payload))>>)

add_to_deployed_values_replace(payload) ==
    LET key == DictGet(payload, "name")
        ref == Len(heap) + 1
        old == resource_value_index[key]
    IN  IF key \notin DOMAIN resource_value_index
        THEN Effect(NoErr, variables,
                    Append(heap, payload),
                    Append(resource_values, ref),
                    [k \in DOMAIN resource_value_index \cup {key} |->
                        IF k = key THEN ref ELSE resource_value_index[k]],
                    <<Event("record", "", Dict(payload))>>)
        ELSE Effect(NoErr, variables,
                    [heap EXCEPT ![old] = payload],
                    resource_values, resource_value_index,
                    <<Event("record", "", Dict(payload))>>)

add_to_deployed_values_front(payload) ==
    LET key == DictGet(payload, "name")
        ref == Len(heap) + 1
        old == resource_value_index[key]
    IN  IF key \notin DOMAIN resource_value_index
        THEN Effect(NoErr, variables,
                    Append(heap, payload),
                    <<ref>> \o resource_values,
                    [k \in DOMAIN resource_value_index \cup {key} |->
                        IF k = key THEN ref ELSE resource_value_index[k]],
                    <<Event("record", "", Dict(payload))>>)
        ELSE Effect(NoErr, variables,
                    [heap EXCEPT ![old] = DictUpdate(heap[old], payload)],
                    resource_values, resource_value_index,
                    <<Event("record", "", Dict(payload))>>)

\* add_to_deployed_values with a slip: the index keeps a copy of a new payload
add_to_deployed_values_copy(payload) ==
    LET key == DictGet(payload, "name")
        ref == Len(heap) + 1
        old == resource_value_index[key]
    IN  IF ~Hashable(key) THEN Raised(TypeError, <<>>)
        ELSE IF key \notin DOMAIN resource_value_index
        THEN Effect(NoErr, variables,
                    heap \o <<payload, payload>>,
                    Append(resource_values, ref),
                    [k \in DOMAIN resource_value_index \cup {key} |->
                        IF k = key THEN ref + 1 ELSE resource_value_index[k]],
                    <<Event("record", "", Dict(payload))>>)
        ELSE Effect(NoErr, variables,
                    [heap EXCEPT ![old] = DictUpdate(heap[old], payload)],
                    resource_values, resource_value_index,
                    <<Event("record", "", Dict(payload))>>)

add_to_deployed_values(payload) ==
    LET key == DictGet(payload, "name")
        ref == Len(heap) + 1
        old == resource_value_index[key]
    IN  IF ~Hashable(key) THEN Raised(TypeError, <<>>)
        ELSE IF key \notin DOMAIN resource_value_index
        THEN Effect(NoErr, variables,
                    Append(heap, payload),
                    Append(resource_values, ref),
                    [k \in DOMAIN resource_value_index \cup {key} |->
                        IF k = key THEN ref ELSE resource_value_index[k]],
                    <<Event("record", "", Dict(payload))>>)
        ELSE Effect(NoErr, variables,
                    [heap EXCEPT ![old] = DictUpdate(heap[old], payload)],
                    resource_values, resource_value_index,
                    <<Event("record", "", Dict(payload))>>)

do_recordresourcevariable(instruction) ==
    IF instruction.variable_name \notin DOMAIN variables
    THEN Raised(KeyError(instruction.variable_name), <<>>)
    ELSE add_to_deployed_values(
             Payload(instruction.resource_name, instruction.resource_type,
                     instruction.name, variables[instruction.variable_name]))

do_recordresourcevalue(instruction) ==
    add_to_deployed_values(
        Payload(instruction.resource_name, instruction.resource_type,
                instruction.name, instruction.value))

\* jmespath.search for the expressions that are one identifier: the field of a
\* dict, null when there is none; an expression that does not parse raises
InvalidExpressions == {"", "a..b"}
ParseError(expression) == [type |-> "ParseError", expression |-> expression]
jmespath_search(expression, v) ==
    IF expression \in InvalidExpressions THEN Raise(ParseError(expression))
    ELSE IF v.t = "dict" /\ DictHas(v.items, expression)
    THEN Ok(DictGet(v.items, expression))
    ELSE Ok(PyNone)

\* do_jpsearch with a slip: the input variable is consumed
do_jpsearch_consume(instruction) ==
    IF instruction.input_var \notin DOMAIN variables
    THEN Raised(KeyError(instruction.input_var), <<>>)
    ELSE LET result == jmespath_search(instruction.expression,
                                       variables[instruction.input_var])
             written == SetVar(variables, instruction.output_var, result.val)
         IN  IF result.err # NoErr THEN Raised(result.err, <<>>)
             ELSE Effect(NoErr,
                         [n \in DOMAIN written \ ({instruction.input_var}
                                                    \ {instruction.output_var})
                             |-> written[n]],
                         heap, resource_values, resource_value_index,
                         <<Event("setvar", instruction.output_var, result.val)>>)

do_jpsearch(instruction) ==
    IF instruction.input_var \notin DOMAIN variables
    THEN Raised(KeyError(instruction.input_var), <<>>)
    ELSE LET result == jmespath_search(instruction.expression,
                                       variables[instruction.input_var])
         IN  IF result.err # NoErr THEN Raised(result.err, <<>>)
             ELSE WroteVariable(instruction.output_var, result.val, <<>>)

\* value.split(sep)
RECURSIVE Split(_, _)
Split(s, sep) ==
    IF \A i \in 1..Len(s) : s[i] # sep THEN <<s>>
    ELSE LET i == CHOOSE j \in 1..Len(s) :
                      s[j] = sep /\ \A h \in 1..(j - 1) : s[h] # sep
         IN  <<SubSeq(s, 1, i - 1)>> \o Split(SubSeq(s, i + 1, Len(s)), sep)

\* resolved_args[0]; of a str it is the first character, which is within the
\* first token and holds no segment of its own
FirstArg(resolved_args) ==
    CASE resolved_args.t = "list" ->
            IF resolved_args.items = <<>> THEN Raise(IndexError)
            ELSE Ok(resolved_args.items[1])
      [] resolved_args.t = "dict" -> Raise(KeyError("0"))
      [] resolved_args.t = "str" ->
            IF resolved_args.s = <<>> THEN Raise(IndexError)
            ELSE Ok(Str(<<resolved_args.s[1]>>))
      [] OTHER -> Raise(TypeError)

\* parse_arn with a slip: the segments are counted from one
parse_arn_from_one(value) ==
    IF value.t # "str" THEN Raise(AttributeError("split"))
    ELSE LET parts == Split(value.s, ":")
         IN  IF Len(parts) < 5 THEN Raise(IndexError)
             ELSE Ok(Dict(<<Item("service", Str(parts[2])),
                            Item("region", Str(parts[3])),
                            Item("account_id", Str(parts[4]))>>))

parse_arn(value) ==
    IF value.t # "str" THEN Raise(AttributeError("split"))
    ELSE LET parts == Split(value.s, ":")
         IN  IF Len(parts) < 5 THEN Raise(IndexError)
             ELSE Ok(Dict(<<Item("service", Str(parts[3])),
                            Item("region", Str(parts[4])),
                            Item("account_id", Str(parts[5]))>>))

do_builtinfunction(instruction) ==
    IF instruction.function_name = "parse_arn"
    THEN LET resolved_args == resolve_variables(instruction.args, variables)
             value == FirstArg(resolved_args.val)
             result == parse_arn(value.val)
         IN  IF resolved_args.err # NoErr THEN Raised(resolved_args.err, <<>>)
             ELSE IF value.err # NoErr THEN Raised(value.err, <<>>)
             ELSE IF result.err # NoErr THEN Raised(result.err, <<>>)
             ELSE WroteVariable(instruction.output_var, result.val, <<>>)
    ELSE Raised(ValueError(instruction.function_name), <<>>)

\* _default_handler with a slip: the instruction is passed over
default_handler_skip(instruction) == Raised(NoErr, <<>>)

default_handler(instruction) == Raised(RuntimeError(instruction.cls), <<>>)

\* instruction.__class__.__name__.lower()
Lower(cls) ==
    CASE cls = "APICall" -> "apicall"
      [] cls = "CopyVariable" -> "copyvariable"
      [] cls = "StoreValue" -> "storevalue"
      [] cls = "RecordResourceVariable" -> "recordresourcevariable"
      [] cls = "RecordResourceValue" -> "recordresourcevalue"
      [] cls = "JPSearch" -> "jpsearch"
      [] cls = "BuiltinFunction" -> "builtinfunction"
      [] cls = "PathQuery" -> "pathquery"
      [] cls = "Instruction" -> "instruction"

\* the _do_ methods of Executor
ExecutorMethods ==
    {"_do_apicall", "_do_copyvariable", "_do_storevalue",
     "_do_recordresourcevariable", "_do_recordresourcevalue", "_do_jpsearch",
     "_do_builtinfunction"}

\* getattr(self, '_do_%s' % ..., self._default_handler)
Handler(instruction) ==
    LET name == "_do_" \o Lower(instruction.cls)
    IN  IF name \in ExecutorMethods THEN name ELSE "_default_handler"

-----------------------------------------------------------------------------
(* Executor.execute: one instruction of the for loop *)

Current == plan[pc]
\* Running with a slip: an exception does not end the loop
RunningAfterError == pc <= Len(plan)
Running == err = NoErr /\ pc <= Len(plan)

At(i, events) == [j \in 1..Len(events) |->
                    [i |-> i, kind |-> events[j].kind, name |-> events[j].name,
                     value |-> events[j].value]]
IsCall(e) == e.kind = "call"

\* execute with a slip: the message is written after the handler has run
execute_message_last(out) ==
    LET instruction == Current
        written == IF instruction.id \in DOMAIN messages
                   THEN <<messages[instruction.id]>> ELSE <<>>
        message == [j \in 1..Len(written) |-> Event("ui", written[j], PyNone)]
    IN  /\ ui' = ui \o written
        /\ trace' = trace \o At(pc, out.events \o message)
        /\ client' = client \o SelectSeq(out.events, IsCall)
        /\ variables' = out.variables
        /\ heap' = out.heap
        /\ resource_values' = out.resource_values
        /\ resource_value_index' = out.resource_value_index
        /\ err' = out.err
        /\ pc' = IF out.err = NoErr THEN pc + 1 ELSE pc
        /\ stores' = Append(stores, variables)
        /\ UNCHANGED <<plan, messages, spillover_values, executions>>

\* the body of the loop: the message, if there is one, then the handler, whose
\* effect is out; an exception ends the loop where it is
execute(out) ==
    LET instruction == Current
        written == IF instruction.id \in DOMAIN messages
                   THEN <<messages[instruction.id]>> ELSE <<>>
        message == [j \in 1..Len(written) |-> Event("ui", written[j], PyNone)]
    IN  /\ ui' = ui \o written
        /\ trace' = trace \o At(pc, message \o out.events)
        /\ client' = client \o SelectSeq(out.events, IsCall)
        /\ variables' = out.variables
        /\ heap' = out.heap
        /\ resource_values' = out.resource_values
        /\ resource_value_index' = out.resource_value_index
        /\ err' = out.err
        /\ pc' = IF out.err = NoErr THEN pc + 1 ELSE pc
        /\ stores' = Append(stores, variables)
        /\ UNCHANGED <<plan, messages, spillover_values, executions>>

\* what the operation provider may answer
ClientResults ==
    {Str(<<"arn", ":", "aws", ":", "lambda", ":", "us-west-2", ":", "123", ":", "fn">>),
     Dict(<<Item("Arn", Str(<<"R">>))>>)}
ClientOutcomes(instruction) ==
    {Ok(r) : r \in ClientResults} \cup {Raise(ClientError(instruction.method_name))}

DoAPICall ==
    /\ Running /\ Handler(Current) = "_do_apicall"
    /\ \E outcome \in ClientOutcomes(Current) : execute(do_apicall(Current, outcome))
DoCopyVariable ==
    /\ Running /\ Handler(Current) = "_do_copyvariable"
    /\ execute(do_copyvariable(Current))
DoStoreValue ==
    /\ Running /\ Handler(Current) = "_do_storevalue"
    /\ execute(do_storevalue(Current))
DoRecordResourceVariable ==
    /\ Running /\ Handler(Current) = "_do_recordresourcevariable"
    /\ execute(do_recordresourcevariable(Current))
DoRecordResourceValue ==
    /\ Running /\ Handler(Current) = "_do_recordresourcevalue"
    /\ execute(do_recordresourcevalue(Current))
DoJPSearch ==
    /\ Running /\ Handler(Current) = "_do_jpsearch"
    /\ execute(do_jpsearch(Current))
DoBuiltinFunction ==
    /\ Running /\ Handler(Current) = "_do_builtinfunction"
    /\ execute(do_builtinfunction(Current))
DoDefault ==
    /\ Running /\ Handler(Current) = "_default_handler"
    /\ execute(default_handler(Current))

Next ==
    \/ DoAPICall
    \/ DoCopyVariable
    \/ DoStoreValue
    \/ DoRecordResourceVariable
    \/ DoRecordResourceValue
    \/ DoJPSearch
    \/ DoBuiltinFunction
    \/ DoDefault

-----------------------------------------------------------------------------
(* Plans *)

MaxPlanLen == 3
MaxExecutes == 2

F1 == Str(<<"f1">>)
F2 == Str(<<"f2">>)
LambdaFunction == Str(<<"lambda_function">>)
ArnX == Str(<<"arn", ":", "aws", ":", "iam", ":", ":", "123", ":", "role/x">>)
RoleY == Str(<<"Y">>)
IamRole == Str(<<"iam_role">>)

\* a template with a slot, "role-{role_name}"
RoleTemplate == StringFormat(<<Lit(<<"role-">>), Slot("role_name")>>, <<"role_name">>)

Pool ==
    { APICall(1, "get_role", Dict(<<Item("name", Str(<<"x">>))>>), "role"),
      APICall(2, "create_function",
              Dict(<<Item("FunctionName", F1), Item("Role", Variable("role"))>>),
              "arn"),
      APICall(3, "update_function",
              Dict(<<Item("FunctionName", F1),
                     Item("Config",
                          Dict(<<Item("Layers",
                                      List(<<Str(<<"l1">>),
                                             Dict(<<Item("Arn",
                                                  Placeholder("BUILD_STAGE"))>>)>>))>>))>>),
              NoOutputVar),
      APICall(4, "update_function", Dict(<<Item("FunctionName", F1)>>), NoOutputVar),
      StoreValue(5, "role_name", RoleY),
      StoreValue(6, "role", List(<<Variable("role_name"), RoleTemplate>>)),
      CopyVariable(7, "role", "arn"),
      RecordResourceValue(8, LambdaFunction, F1, "arn", ArnX),
      RecordResourceVariable(9, LambdaFunction, F1, "role", "role"),
      RecordResourceValue(10, LambdaFunction, F2, "arn", RoleY),
      RecordResourceValue(11, LambdaFunction, F1, "name", F2),
      JPSearch(12, "Arn", "role", "arn"),
      BuiltinFunction(13, "parse_arn", List(<<Variable("arn")>>), "parsed"),
      OtherInstruction(14, "PathQuery"),
      RecordResourceValue(15, LambdaFunction, F1, "arn", RoleY),
      BuiltinFunction(16, "parse_url", List(<<Variable("arn")>>), "parsed"),
      RecordResourceValue(17, LambdaFunction, F2, "resource_type", IamRole),
      StoreValue(18, "config",
                 Dict(<<Item("a", Variable("role_name")),
                        Item("b", List(<<Dict(<<Item("c",
                                          Placeholder("DEPLOY_STAGE"))>>)>>))>>)) }

Plans(pool) == UNION {[1..n -> pool] : n \in 0..MaxPlanLen}

\* plan.messages: no message at all, or one for the instructions of even id
MessageMaps(pool) ==
    { <<>>,
      [id \in {i.id : i \in {j \in pool : j.id % 2 = 0}} |-> "deploying" ] }

InitExecutor ==
    /\ pc = 1
    /\ err = NoErr
    /\ variables = <<>>
    /\ heap = <<>>
    /\ resource_values = <<>>
    /\ resource_value_index = <<>>
    /\ ui = <<>>
    /\ client = <<>>
    /\ trace = <<>>
    /\ stores = <<>>
    /\ spillover_values = <<>>
    /\ executions = 1

Init ==
    /\ plan \in Plans(Pool)
    /\ messages \in MessageMaps(Pool)
    /\ InitExecutor

Spec == Init /\ [][Next]_vars

-----------------------------------------------------------------------------
(* The resource records, as a caller reads them from resource_values *)

RecordsOf(h, values) == [i \in 1..Len(values) |-> h[values[i]]]
NamesOf(h, values) == [i \in 1..Len(values) |-> DictGet(h[values[i]], "name")]
RecordsNamed(h, values, r) ==
    {h[values[i]] : i \in {j \in 1..Len(values) : DictGet(h[values[j]], "name") = r}}

IsRecordEvent(e) == e.kind = "record"
RecordEvents == SelectSeq(trace, IsRecordEvent)
\* the name each executed Record instruction recorded, in order
RecordedNames ==
    [j \in 1..Len(RecordEvents) |-> DictGet(RecordEvents[j].value.items, "name")]

RECURSIVE FirstSeen(_, _)
FirstSeen(names, seen) ==
    IF names = <<>> THEN <<>>
    ELSE IF Head(names) \in seen THEN FirstSeen(Tail(names), seen)
    ELSE <<Head(names)>> \o FirstSeen(Tail(names), seen \cup {Head(names)})

RecordClasses == {"RecordResourceValue", "RecordResourceVariable"}

\* C1: resource_values never holds two records of the same name, and it holds
\* exactly one record per name recorded so far: recording a name again adds none.
C1_OneRecordPerName ==
    LET names == NamesOf(heap, resource_values)
    IN  /\ \A i, j \in 1..Len(names) : i # j => names[i] # names[j]
        /\ Len(resource_values)
             = Cardinality({RecordedNames[j] : j \in 1..Len(RecordedNames)})

\* RecordResourceValue for f1, then RecordResourceVariable for f1: one record
C1_Witness ==
    /\ Len(resource_values) = 1
    /\ \E i, j \in 1..Len(RecordEvents) :
          /\ i < j
          /\ RecordedNames[i] = F1 /\ RecordedNames[j] = F1
          /\ plan[RecordEvents[i].i].cls = "RecordResourceValue"
          /\ plan[RecordEvents[j].i].cls = "RecordResourceVariable"

\* a Record instruction is executed, and does not raise
RecordStep ==
    /\ err = NoErr /\ pc <= Len(plan) /\ plan[pc].cls \in RecordClasses
    /\ err' = NoErr /\ pc' = pc + 1

RecordedValue(instruction) ==
    IF instruction.cls = "RecordResourceValue" THEN instruction.value
    ELSE variables[instruction.variable_name]

\* after the step, the record named resource_name has that name, the
\* instruction's resource_type and attribute, and the other attributes it had
MergedAsWritten(instruction) ==
    LET r == instruction.resource_name
        a == instruction.name
        before == RecordsNamed(heap, resource_values, r)
        after == RecordsNamed(heap', resource_values', r)
    IN  /\ Cardinality(after) = 1
        /\ \A rec \in after :
              /\ DictGet(rec, "name") = r
              /\ DictGet(rec, "resource_type") = instruction.resource_type
              /\ DictHas(rec, a) /\ DictGet(rec, a) = RecordedValue(instruction)
              /\ \A old \in before :
                    \A k \in DictKeys(old) \ {"name", "resource_type", a} :
                        DictHas(rec, k) /\ DictGet(rec, k) = DictGet(old, k)

\* C2 as stated: for every attribute name, the record named resource_name holds
\* name, resource_type and the attribute as the instruction gave them.
C2_Original == [][RecordStep => MergedAsWritten(plan[pc])]_vars

\* C2: for every attribute name other than 'name' and 'resource_type', after a
\* Record instruction the record named resource_name has that name, the
\* instruction's resource_type, the attribute with the instruction's value, and
\* every other attribute it had before with the value it had.
C2_LastWriterWins ==
    [][(RecordStep /\ plan[pc].name \notin {"name", "resource_type"})
          => MergedAsWritten(plan[pc])]_vars

\* an attribute recorded twice: the record holds the later value
C2_Witness ==
    \E i, j \in 1..Len(RecordEvents) :
        /\ i < j
        /\ RecordedNames[i] = F1 /\ RecordedNames[j] = F1
        /\ DictHas(RecordEvents[i].value.items, "arn")
        /\ DictGet(RecordEvents[i].value.items, "arn") = ArnX
        /\ DictHas(RecordEvents[j].value.items, "arn")
        /\ DictGet(RecordEvents[j].value.items, "arn") = RoleY
        /\ \E rec \in RecordsNamed(heap, resource_values, F1) :
               DictGet(rec, "arn") = RoleY

\* C3: the records are in the order in which their names were first recorded.
C3_FirstSeenOrder == NamesOf(heap, resource_values) = FirstSeen(RecordedNames, {})

\* f1, then f2, then a merge into f1: f1 is still first
C3_Witness ==
    /\ Len(RecordedNames) = 3
    /\ RecordedNames[1] = F1 /\ RecordedNames[2] = F2 /\ RecordedNames[3] = F1
    /\ Len(resource_values) = 2

-----------------------------------------------------------------------------
(* Failures *)

Failed == err # NoErr
\* the instructions that were begun: Len(stores) of them
Begun == 1..Len(stores)
EventsOf(i) == SelectSeq(trace, LAMBDA e : e.i = i)
IsEffect(e) == e.kind \in {"call", "setvar", "record"}

\* C4: once an instruction has failed, execute has ended with that error:
\* nothing of a later instruction is in the trace, and nothing changes any more.
C4_FailFast ==
    /\ [](Failed => /\ pc <= Len(plan)
                    /\ Len(stores) = pc
                    /\ \A j \in 1..Len(trace) : trace[j].i <= pc)
    /\ [][Failed => UNCHANGED vars]_vars

\* a failure with an instruction after it that has a message and calls the client
C4_Witness ==
    /\ Failed /\ pc < Len(plan)
    /\ plan[pc + 1].cls = "APICall"
    /\ plan[pc + 1].id \in DOMAIN messages

\* C5: the step in which an instruction fails leaves the variable store and the
\* resource records as the instructions before it left them.
C5_NoPartialWrite ==
    [][(~Failed /\ Failed')
          => /\ variables' = variables
             /\ RecordsOf(heap', resource_values') = RecordsOf(heap, resource_values)
             /\ resource_value_index' = resource_value_index]_vars

\* a failure after a variable and a record were written: both are kept
C5_Witness ==
    /\ Failed
    /\ DOMAIN variables # {}
    /\ resource_values # <<>>
    /\ variables = stores[pc]

KnownVariants ==
    {"APICall", "CopyVariable", "StoreValue", "RecordResourceVariable",
     "RecordResourceValue", "JPSearch", "BuiltinFunction"}

\* C6: a step at an instruction of a variant without a handler ends execute with
\* a RuntimeError naming the variant, and after it nothing changes.
C6_UnknownVariantAborts ==
    [][/\ (~Failed /\ pc <= Len(plan) /\ plan[pc].cls \notin KnownVariants)
             => (err' = RuntimeError(plan[pc].cls) /\ pc' = pc)
       /\ (err.type = "RuntimeError") => UNCHANGED vars]_vars

C6_Witness ==
    /\ err = RuntimeError("PathQuery")
    /\ pc < Len(plan)
    /\ plan[pc].cls = "PathQuery"

-----------------------------------------------------------------------------
(* Order of the effects *)

\* the APICall at i reached the client: it completed, or the client raised
Invoked(i) ==
    /\ plan[i].cls = "APICall"
    /\ i < pc \/ (i = pc /\ err.type = "ClientError")

RECURSIVE CallsUpTo(_)
CallsUpTo(i) ==
    IF i = 0 THEN <<>>
    ELSE CallsUpTo(i - 1) \o
         (IF Invoked(i)
          THEN <<[i |-> i, kind |-> "call", name |-> plan[i].method_name,
                  value |-> resolve_variables(plan[i].params, stores[i]).val]>>
          ELSE <<>>)

Unplaced(events) ==
    [j \in 1..Len(events) |-> Event(events[j].kind, events[j].name, events[j].value)]

\* C7: the client has received exactly the APICalls of the executed prefix, once
\* each, in plan order, each with its params resolved against the store as the
\* instructions before it left it.
C7_SequentialCalls ==
    /\ SelectSeq(trace, IsCall) = CallsUpTo(Len(stores))
    /\ client = Unplaced(CallsUpTo(Len(stores)))
    /\ \A j, k \in 1..Len(trace) : j < k => trace[j].i <= trace[k].i

\* two calls, the second with an argument the first call returned
C7_Witness ==
    /\ Len(client) = 2
    /\ client[1].name = "get_role" /\ client[2].name = "create_function"
    /\ DictGet(client[2].value.items, "Role") \in ClientResults
    /\ variables["role"] = DictGet(client[2].value.items, "Role")

\* C8: an instruction with a message has it written once, before anything else
\* the instruction does and after everything the instructions before it did; an
\* instruction without a message writes nothing.
C8_MessageFirst ==
    /\ \A i \in Begun :
          LET events == EventsOf(i)
              written == SelectSeq(events, LAMBDA e : e.kind = "ui")
          IN  IF plan[i].id \in DOMAIN messages
              THEN /\ Len(written) = 1
                   /\ events[1] = [i |-> i, kind |-> "ui",
                                   name |-> messages[plan[i].id], value |-> PyNone]
              ELSE written = <<>>
    /\ \A j, k \in 1..Len(trace) : j < k => trace[j].i <= trace[k].i
    /\ ui = [j \in 1..Len(SelectSeq(trace, LAMBDA e : e.kind = "ui")) |->
                SelectSeq(trace, LAMBDA e : e.kind = "ui")[j].name]

\* a message between an effect of the instruction before and the instruction's own
C8_Witness ==
    \E j \in 2..(Len(trace) - 1) :
        /\ trace[j].kind = "ui"
        /\ IsEffect(trace[j - 1]) /\ trace[j - 1].i < trace[j].i
        /\ IsEffect(trace[j + 1]) /\ trace[j + 1].i = trace[j].i

-----------------------------------------------------------------------------
(* Resolution errors *)

RECURSIVE ContainsPlaceholder(_)
ContainsPlaceholder(v) ==
    CASE v.t = "ph" -> TRUE
      [] v.t = "dict" -> \E j \in 1..Len(v.items) : ContainsPlaceholder(v.items[j].v)
      [] v.t = "list" -> \E j \in 1..Len(v.items) : ContainsPlaceholder(v.items[j])
      [] OTHER -> FALSE

\* the instructions that resolve a value, and the value
Resolves(instruction) ==
    \/ instruction.cls \in {"APICall", "StoreValue"}
    \/ instruction.cls = "BuiltinFunction" /\ instruction.function_name = "parse_arn"
ValueOf(instruction) ==
    CASE instruction.cls = "APICall" -> instruction.params
      [] instruction.cls = "StoreValue" -> instruction.value
      [] instruction.cls = "BuiltinFunction" -> instruction.args

\* C9: no instruction whose value contains a Placeholder completes; and the
\* UnresolvedValueError of a mapping has the key of the top-level item that the
\* placeholder is under.
C9_PlaceholderKey ==
    /\ \A i \in 1..Len(plan) :
          (i < pc /\ Resolves(plan[i])) => ~ContainsPlaceholder(ValueOf(plan[i]))
    /\ (err.type = "UnresolvedValueError" /\ ValueOf(plan[pc]).t = "dict")
          => /\ err.key \in DictKeys(ValueOf(plan[pc]).items)
             /\ ContainsPlaceholder(DictGet(ValueOf(plan[pc]).items, err.key))
             /\ err.value.t = "ph"

\* the placeholder is under Config, in a list, in a mapping with the key Arn
C9_Witness ==
    /\ err.type = "UnresolvedValueError"
    /\ err.key = "Config"
    /\ err.value = Placeholder("BUILD_STAGE")

\* the APICall at pc failed while its params were resolved
ResolutionFailed ==
    /\ Failed /\ plan[pc].cls = "APICall"
    /\ resolve_variables(plan[pc].params, variables).err # NoErr

\* C10 as stated: every failure to resolve an APICall's params carries the
\* APICall's method_name.
C10_Original ==
    ResolutionFailed
        => /\ "method_name" \in DOMAIN err
           /\ err.method_name = plan[pc].method_name

\* C10: a failure to resolve an APICall's params on an unresolved placeholder
\* carries the APICall's method_name; a reference to a variable that was not
\* written ends execute with a KeyError of the variable's name, and no
\* method_name.
C10_MethodNameOnPlaceholder ==
    ResolutionFailed
        => \/ /\ err.type = "UnresolvedValueError"
              /\ err.method_name = plan[pc].method_name
           \/ /\ err.type = "KeyError"
              /\ DOMAIN err = {"type", "key"}
              /\ err.key \notin DOMAIN variables

C10_Witness ==
    /\ ResolutionFailed
    /\ err.type = "UnresolvedValueError"
    /\ err.method_name = "update_function"

-----------------------------------------------------------------------------
(* Plans that exercise the resolver, the copies and the builtin *)

Arn5 == Str(<<"arn", ":", "aws", ":", "s3", ":", ":", "123">>)
Arn4 == Str(<<"arn", ":", "aws", ":", "s3", ":", "r">>)
TemplateA == StringFormat(<<Lit(<<"fn-">>), Slot("a"), Lit(<<"-x">>)>>, <<"a">>)
TemplateC == StringFormat(<<Lit(<<"fn-">>), Slot("c")>>, <<"c">>)

PoolResolve ==
    { StoreValue(1, "a", Arn5),
      StoreValue(2, "cfg",
                 Dict(<<Item("k1", Variable("a")),
                        Item("k2", List(<<Dict(<<Item("k3", TemplateA),
                                                 Item("k4", Str(<<"lit">>)),
                                                 Item("k5", PyNone)>>),
                                          Variable("a")>>))>>)),
      APICall(3, "create_function",
              Dict(<<Item("P", Placeholder("BUILD_STAGE")),
                     Item("R", Variable("b"))>>),
              "arn"),
      APICall(4, "get_role", Dict(<<Item("R", List(<<Variable("b")>>))>>), "a"),
      CopyVariable(5, "a", "b"),
      RecordResourceVariable(6, LambdaFunction, F1, "arn", "b"),
      RecordResourceValue(7, LambdaFunction, F1, "cfg",
                          Dict(<<Item("k", Variable("a"))>>)),
      JPSearch(8, "k1", "cfg", "b"),
      BuiltinFunction(9, "parse_arn", List(<<Variable("a")>>), "parsed"),
      BuiltinFunction(10, "parse_arn", List(<<Arn4>>), "parsed"),
      BuiltinFunction(11, "parse_url", List(<<Variable("a")>>), "parsed"),
      OtherInstruction(12, "Instruction"),
      StoreValue(13, "a", TemplateC),
      StoreValue(14, "b", RoleY) }

InitResolve ==
    /\ plan \in Plans(PoolResolve)
    /\ messages \in MessageMaps(PoolResolve)
    /\ InitExecutor

SpecResolve == InitResolve /\ [][Next]_vars

-----------------------------------------------------------------------------
(* What the resolver returns *)

\* the store before instruction i, and the current one after the last
StoreAt(i) == IF i <= Len(stores) THEN stores[i] ELSE variables

RECURSIVE Filled(_, _)
Filled(template, store) ==
    IF template = <<>> THEN <<>>
    ELSE (IF Head(template).slot THEN PyStr(store[Head(template).name])
          ELSE Head(template).s) \o Filled(Tail(template), store)

\* result has the shape of value, with every Variable replaced by what the store
\* holds, every StringFormat by its text, and everything else as it was
RECURSIVE ResolvedAs(_, _, _)
ResolvedAs(value, result, store) ==
    CASE value.t = "var" -> result = store[value.name]
      [] value.t = "fmt" -> result = Str(Filled(value.template, store))
      [] value.t = "dict" ->
            /\ result.t = "dict"
            /\ Len(result.items) = Len(value.items)
            /\ \A j \in 1..Len(value.items) :
                  /\ result.items[j].k = value.items[j].k
                  /\ ResolvedAs(value.items[j].v, result.items[j].v, store)
      [] value.t = "list" ->
            /\ result.t = "list"
            /\ Len(result.items) = Len(value.items)
            /\ \A j \in 1..Len(value.items) :
                  ResolvedAs(value.items[j], result.items[j], store)
      [] OTHER -> result = value

\* what was resolved for an APICall (its kwargs) or a StoreValue (what it stored)
IsResolution(e) ==
    \/ e.kind = "call"
    \/ e.kind = "setvar" /\ plan[e.i].cls = "StoreValue"

\* C11: what resolve_variables returned for the params of an APICall or the value
\* of a StoreValue has the shape of that value, with every reference replaced by
\* what the store held; resolving the value again gives the same, and resolving
\* the result gives the result.
C11_ResolveShape ==
    \A j \in 1..Len(trace) :
        IsResolution(trace[j]) =>
            LET e == trace[j]
                store == stores[e.i]
            IN  /\ ResolvedAs(ValueOf(plan[e.i]), e.value, store)
                /\ resolve_variables(ValueOf(plan[e.i]), store) = Ok(e.value)
                /\ resolve_variables(e.value, store) = Ok(e.value)

\* a mapping with a reference, a list, an inner mapping and a template in it
C11_Witness ==
    /\ "cfg" \in DOMAIN variables
    /\ variables["cfg"].t = "dict"
    /\ DictGet(variables["cfg"].items, "k1") = Arn5
    /\ DictGet(variables["cfg"].items, "k2").t = "list"
    /\ DictGet(variables["cfg"].items, "k2").items[2] = Arn5

-----------------------------------------------------------------------------
(* CopyVariable *)

\* the instructions that completed
Completed == 1..(pc - 1)

\* instruction j changed what is read from name n
ChangedBy(j, n) ==
    \/ (n \in DOMAIN StoreAt(j)) # (n \in DOMAIN StoreAt(j + 1))
    \/ n \in DOMAIN StoreAt(j) /\ StoreAt(j + 1)[n] # StoreAt(j)[n]

-----------------------------------------------------------------------------
(* Names read before they are written *)

\* the name an instruction writes, if any
Targets(instruction) ==
    CASE instruction.cls \in {"APICall", "JPSearch", "BuiltinFunction"} ->
            {instruction.output_var} \ {NoOutputVar}
      [] instruction.cls = "CopyVariable" -> {instruction.to_var}
      [] instruction.cls = "StoreValue" -> {instruction.name}
      [] OTHER -> {}

WrittenBefore(i) == UNION {Targets(plan[j]) : j \in 1..(i - 1)}

\* the references and placeholders of a value, in the order resolution meets them
RECURSIVE Leaves(_)
RECURSIVE LeavesOf(_)
Leaves(v) ==
    CASE v.t = "var" -> <<[ph |-> FALSE, names |-> <<v.name>>]>>
      [] v.t = "fmt" -> <<[ph |-> FALSE, names |-> v.variables]>>
      [] v.t = "ph" -> <<[ph |-> TRUE, names |-> <<>>]>>
      [] v.t = "dict" -> LeavesOf([j \in 1..Len(v.items) |-> v.items[j].v])
      [] v.t = "list" -> LeavesOf(v.items)
      [] OTHER -> <<>>
LeavesOf(values) ==
    IF values = <<>> THEN <<>>
    ELSE Leaves(Head(values)) \o LeavesOf(Tail(values))

\* what an instruction reads by name: its leaves, or its one source variable
Reads(instruction) ==
    CASE Resolves(instruction) -> Leaves(ValueOf(instruction))
      [] instruction.cls = "CopyVariable" ->
            <<[ph |-> FALSE, names |-> <<instruction.from_var>>]>>
      [] instruction.cls = "RecordResourceVariable" ->
            <<[ph |-> FALSE, names |-> <<instruction.variable_name>>]>>
      [] instruction.cls = "JPSearch" ->
            <<[ph |-> FALSE, names |-> <<instruction.input_var>>]>>
      [] OTHER -> <<>>

Range(s) == {s[j] : j \in 1..Len(s)}
Undefined(leaf, i) == Range(leaf.names) \ WrittenBefore(i)
ReadsUndefined(i) == \E j \in 1..Len(Reads(plan[i])) : Undefined(Reads(plan[i])[j], i) # {}

\* a Placeholder comes before the first reference to a name not yet written
PlaceholderFirst(i) ==
    LET leaves == Reads(plan[i])
    IN  \E j \in 1..Len(leaves) :
            /\ leaves[j].ph
            /\ \A h \in 1..(j - 1) : Undefined(leaves[h], i) = {}

\* the instruction failed, and left the store as it found it
AbortedAt(i) == Failed /\ pc = i /\ variables = stores[i]

\* C13 as stated: every begun instruction with a reference to a name that no
\* earlier instruction wrote fails with the KeyError of such a name.
C13_Original ==
    \A i \in Begun :
        ReadsUndefined(i) =>
            /\ AbortedAt(i)
            /\ err.type = "KeyError"
            /\ err.key \in UNION {Undefined(l, i) : l \in Range(Reads(plan[i]))}

\* C13: every begun instruction with a reference to a name that no earlier
\* instruction wrote fails and leaves the store as it was, nothing put in place
\* of the missing value; the error is the KeyError of such a name unless
\* resolution meets a Placeholder first, and then it is the UnresolvedValueError.
C13_UndefinedVariable ==
    \A i \in Begun :
        ReadsUndefined(i) =>
            /\ AbortedAt(i)
            /\ IF PlaceholderFirst(i)
               THEN err.type = "UnresolvedValueError"
               ELSE /\ err.type = "KeyError"
                    /\ err.key \in UNION {Undefined(l, i) : l \in Range(Reads(plan[i]))}

\* a copy from a name never written, after an instruction that completed
C13_Witness ==
    /\ Failed /\ pc > 1
    /\ plan[pc].cls = "CopyVariable"
    /\ err = KeyError(plan[pc].from_var)

-----------------------------------------------------------------------------
(* BuiltinFunction *)

\* the segments of a colon-delimited string, counted from zero: segment n is what
\* stands between colon n and colon n + 1
Colons(s) == {j \in 1..Len(s) : s[j] = ":"}
NumSegments(s) == Cardinality(Colons(s)) + 1
Segment(s, n) ==
    LET within == {j \in 1..Len(s) :
                      /\ s[j] # ":"
                      /\ Cardinality({h \in Colons(s) : h < j}) = n}
    IN  IF within = {} THEN <<>>
        ELSE SubSeq(s, CHOOSE j \in within : \A h \in within : j <= h,
                       CHOOSE j \in within : \A h \in within : j >= h)

IsParseArn(instruction) ==
    instruction.cls = "BuiltinFunction" /\ instruction.function_name = "parse_arn"

\* the first of the resolved args is a string of at least five segments
HasArn(i) ==
    LET resolved_args == resolve_variables(plan[i].args, stores[i])
    IN  /\ resolved_args.err = NoErr
        /\ resolved_args.val.t = "list"
        /\ resolved_args.val.items # <<>>
        /\ resolved_args.val.items[1].t = "str"
        /\ NumSegments(resolved_args.val.items[1].s) >= 5
Arn(i) == resolve_variables(plan[i].args, stores[i]).val.items[1].s

\* C15: a begun parse_arn whose first resolved argument is a string of at least
\* five segments completes and leaves under output_var the dict of segments 2, 3
\* and 4 as service, region and account_id; a BuiltinFunction of any other
\* function_name fails with the ValueError that names it and writes nothing.
C15_ParseArn ==
    \A i \in Begun :
        /\ (IsParseArn(plan[i]) /\ HasArn(i)) =>
              /\ i \in Completed
              /\ StoreAt(i + 1) =
                    SetVar(stores[i], plan[i].output_var,
                           Dict(<<Item("service", Str(Segment(Arn(i), 2))),
                                  Item("region", Str(Segment(Arn(i), 3))),
                                  Item("account_id", Str(Segment(Arn(i), 4)))>>))
        /\ (plan[i].cls = "BuiltinFunction" /\ ~IsParseArn(plan[i])) =>
              /\ AbortedAt(i)
              /\ err = ValueError(plan[i].function_name)

\* an identifier of five segments with an empty region was parsed
C15_Witness ==
    /\ "parsed" \in DOMAIN variables
    /\ variables["parsed"] = Dict(<<Item("service", Str(<<"s3">>)),
                                   Item("region", Str(<<>>)),
                                   Item("account_id", Str(<<"123">>))>>)

-----------------------------------------------------------------------------
(* What the store holds *)

\* a Variable, StringFormat or Placeholder at any depth
RECURSIVE ContainsDeferred(_)
ContainsDeferred(v) ==
    CASE v.t \in {"var", "fmt", "ph"} -> TRUE
      [] v.t = "dict" -> \E j \in 1..Len(v.items) : ContainsDeferred(v.items[j].v)
      [] v.t = "list" -> \E j \in 1..Len(v.items) : ContainsDeferred(v.items[j])
      [] OTHER -> FALSE

\* C20: the results of the provider holding no deferred form, no value of the
\* store holds a Variable, StringFormat or Placeholder at any depth, and resolving
\* a value of the store gives the value itself.
C20_StoreResolved ==
    (\A r \in ClientResults : ~ContainsDeferred(r)) =>
        \A n \in DOMAIN variables :
            /\ ~ContainsDeferred(variables[n])
            /\ resolve_variables(variables[n], variables) = Ok(variables[n])

\* a StoreValue whose value had references in it completed, and what is read
\* under its name has none
C20_Witness ==
    \E i \in Completed :
        /\ plan[i].cls = "StoreValue"
        /\ ContainsDeferred(plan[i].value)
        /\ variables[plan[i].name].t = "dict"
        /\ ~ContainsDeferred(variables[plan[i].name])

-----------------------------------------------------------------------------
(* What one instruction changes *)

\* the payload objects that differ between two heaps
ChangedRecords(h, g) ==
    {ref \in 1..Len(g) : ref > Len(h) \/ g[ref] # h[ref]}

\* C18: a step of execute changes the store at no name but the one the
\* instruction writes, removes no name, and after a write the name reads the
\* value written; an instruction that is not a Record instruction leaves the
\* records as they are, and a Record instruction leaves the store as it is and
\* changes at most one record.
C18_Frame ==
    [][Running =>
        /\ DOMAIN variables \subseteq DOMAIN variables'
        /\ \A n \in DOMAIN variables' \ Targets(Current) :
              n \in DOMAIN variables /\ variables'[n] = variables[n]
        /\ (err' = NoErr) =>
              \A n \in Targets(Current) :
                 /\ n \in DOMAIN variables'
                 /\ trace'[Len(trace')].kind = "setvar"
                 /\ trace'[Len(trace')].name = n
                 /\ variables'[n] = trace'[Len(trace')].value
        /\ (err' # NoErr) => variables' = variables
        /\ (Current.cls \notin RecordClasses) =>
              UNCHANGED <<heap, resource_values, resource_value_index>>
        /\ (Current.cls \in RecordClasses) =>
              /\ variables' = variables
              /\ Len(heap') >= Len(heap)
              /\ Cardinality(ChangedRecords(heap, heap')) <= 1
              /\ \A j \in 1..Len(resource_values) :
                    resource_values'[j] = resource_values[j]
              /\ Len(resource_values') <= Len(resource_values) + 1]_vars

\* a name that was written before was written again with another value, and a
\* record was merged, in one run
C18_Witness ==
    /\ \E i \in Completed : \E n \in Targets(plan[i]) :
          /\ n \in DOMAIN StoreAt(i)
          /\ StoreAt(i + 1)[n] # StoreAt(i)[n]
    /\ Len(resource_values) = 1

-----------------------------------------------------------------------------
(* The index and the list of records *)

\* C19: every key of the index refers to a record of that name, the record is
\* in resource_values exactly once, resource_values holds no other record, and
\* so a record read through resource_values is the one the index merges into.
C19_IndexAgrees ==
    /\ \A k \in DOMAIN resource_value_index :
          /\ resource_value_index[k] \in 1..Len(heap)
          /\ DictGet(heap[resource_value_index[k]], "name") = k
          /\ Cardinality({j \in 1..Len(resource_values) :
                             resource_values[j] = resource_value_index[k]}) = 1
    /\ \A j \in 1..Len(resource_values) :
          \E k \in DOMAIN resource_value_index :
             /\ resource_values[j] = resource_value_index[k]
             /\ RecordsOf(heap, resource_values)[j] = heap[resource_value_index[k]]
    /\ Len(resource_values) = Cardinality(DOMAIN resource_value_index)

\* two records, one of them merged into after it was first recorded
C19_Witness ==
    /\ Len(resource_values) = 2
    /\ Len(RecordEvents) = 3

-----------------------------------------------------------------------------
(* DisplayOnlyExecutor *)

MAX_BYTE_LENGTH == 30

\* asdict(instruction): the attributes, in the order the class declares them
Fields(instruction) ==
    CASE instruction.cls = "APICall" -> <<"method_name", "params", "output_var">>
      [] instruction.cls = "CopyVariable" -> <<"from_var", "to_var">>
      [] instruction.cls = "StoreValue" -> <<"name", "value">>
      [] instruction.cls = "RecordResourceVariable" ->
            <<"resource_type", "resource_name", "name", "variable_name">>
      [] instruction.cls = "RecordResourceValue" ->
            <<"resource_type", "resource_name", "name", "value">>
      [] instruction.cls = "JPSearch" -> <<"expression", "input_var", "output_var">>
      [] instruction.cls = "BuiltinFunction" ->
            <<"function_name", "args", "output_var">>
      [] OTHER -> <<>>

\* the attribute as a Python value
FieldValue(instruction, key) ==
    IF key \in {"params", "value", "args", "resource_type", "resource_name"}
    THEN instruction[key]
    ELSE IF instruction[key] = NoOutputVar THEN PyNone
    ELSE Str(<<instruction[key]>>)

\* _upper_snake_case of the class names: an underscore before a capital that
\* starts a lower-case run or follows a lower-case letter, then upper()
UpperSnakeCase(v) ==
    CASE v = "APICall" -> "API_CALL"
      [] v = "CopyVariable" -> "COPY_VARIABLE"
      [] v = "StoreValue" -> "STORE_VALUE"
      [] v = "RecordResourceVariable" -> "RECORD_RESOURCE_VARIABLE"
      [] v = "RecordResourceValue" -> "RECORD_RESOURCE_VALUE"
      [] v = "JPSearch" -> "JP_SEARCH"
      [] v = "BuiltinFunction" -> "BUILTIN_FUNCTION"
      [] v = "PathQuery" -> "PATH_QUERY"
      [] v = "Instruction" -> "INSTRUCTION"

\* key.upper()
Upper(key) ==
    CASE key = "FunctionName" -> "FUNCTIONNAME"
      [] key = "Layers" -> "LAYERS"
      [] key = "layers" -> "LAYERS"
      [] key = "Tags" -> "TAGS"
      [] key = "Environment" -> "ENVIRONMENT"
      [] key = "ZipFile" -> "ZIPFILE"
      [] key = "Hash" -> "HASH"
      [] key = "Description" -> "DESCRIPTION"

\* not value
Falsy(value) ==
    \/ value.t = "none"
    \/ value.t = "str" /\ value.s = <<>>
    \/ value.t \in {"dict", "list"} /\ value.items = <<>>
    \/ value.t = "bytes" /\ value.len = 0

\* what is written to the sink: a piece of text, or a formatted line, of which
\* the columns are kept and the padding is not
Text(s) == [t |-> "text", s |-> s]
Line(key, value) == [t |-> "line", key |-> key, value |-> value]
Row(instruction_name, key, value) ==
    [t |-> "row", name |-> instruction_name, key |-> key, value |-> value]
\* '\n'.join(lines), as the lines it joins
Block(lines) == [t |-> "block", lines |-> lines]

\* '${%s_%s}' % (key.upper(), len(spillover_values)) with a slip: no counter
spillover_name_plain(key, spillover) == "${" \o Upper(key) \o "}"

\* '${%s_%s}' % (key.upper(), len(spillover_values))
spillover_name(key, spillover) ==
    "${" \o Upper(key) \o "_" \o ToString(Len(spillover)) \o "}"

\* _format_dict, from the item it has come to: the lines so far and the pool
RECURSIVE format_dict(_, _, _)
format_dict(items, lines, spillover) ==
    IF items = <<>> THEN [lines |-> lines, spillover_values |-> spillover]
    ELSE LET key == Head(items).k
             value == Head(items).v
             short == IF value.t = "bytes" /\ value.len > MAX_BYTE_LENGTH
                      THEN Str(<<"<bytes>">>) ELSE value
             name == spillover_name(key, spillover)
         IN  IF Falsy(value) THEN format_dict(Tail(items), lines, spillover)
             ELSE IF short.t \in {"dict", "list"}
             THEN format_dict(Tail(items), Append(lines, Line(key, <<name>>)),
                              DictSet(spillover, name, short))
             ELSE format_dict(Tail(items), Append(lines, Line(key, PyStr(short))),
                              spillover)

\* the loop of _default_handler over the fields that are left
RECURSIVE display_fields(_, _, _, _)
display_fields(instruction, keys, instruction_name, spillover) ==
    IF keys = <<>> THEN [writes |-> <<>>, spillover_values |-> spillover]
    ELSE LET key == Head(keys)
             value == FieldValue(instruction, key)
             formatted == format_dict(value.items, <<Text("")>>, spillover)
             shown == IF value.t = "dict" THEN Block(formatted.lines)
                      ELSE Str(PyStr(value))
             after == IF value.t = "dict" THEN formatted.spillover_values
                      ELSE spillover
             rest == display_fields(instruction, Tail(keys), "", after)
         IN  [writes |-> <<Row(instruction_name, key, shown)>> \o rest.writes,
              spillover_values |-> rest.spillover_values]

\* DisplayOnlyExecutor._default_handler
display_default_handler(instruction, spillover) ==
    LET out == display_fields(instruction, Fields(instruction),
                              UpperSnakeCase(instruction.cls), spillover)
    IN  [writes |-> Append(out.writes, Text("\n")),
         spillover_values |-> out.spillover_values]

\* pprint.pformat(value) + '\n\n', for a value that fits one line
PFormat(value) == Text(Repr(value) \o <<"\n\n">>)

\* _write_spillover
RECURSIVE write_pool(_)
write_pool(items) ==
    IF items = <<>> THEN <<>>
    ELSE <<Text(Head(items).k \o ":\n"), PFormat(Head(items).v)>>
         \o write_pool(Tail(items))
write_spillover(spillover) ==
    IF spillover = <<>> THEN <<>>
    ELSE <<Text("Variable Pool\n"), Text("=============\n\n")>> \o write_pool(spillover)

\* the _do_ methods of DisplayOnlyExecutor: there are none
DisplayMethods == {}
DisplayHandler(instruction) ==
    LET name == "_do_" \o Lower(instruction.cls)
    IN  IF name \in DisplayMethods THEN name ELSE "_default_handler"

\* spillover_values = {} with a slip: the pool of the pass before is kept
kept_spillover(previous) == previous
\* spillover_values = {}
new_spillover(previous) == <<>>

\* execute is called: the pool, and the two lines of the heading
DisplayExecute ==
    /\ pc = 0 /\ executions < MaxExecutes
    /\ executions' = executions + 1
    /\ spillover_values' = new_spillover(spillover_values)
    /\ ui' = ui \o <<Text("Plan\n"), Text("====\n\n")>>
    /\ trace' = <<>>
    /\ pc' = 1
    /\ UNCHANGED <<plan, messages, err, variables, heap, resource_values,
                   resource_value_index, client, stores>>

\* one instruction of the for loop
DisplayInstruction ==
    /\ pc \in 1..Len(plan)
    /\ DisplayHandler(Current) = "_default_handler"
    /\ LET out == display_default_handler(Current, spillover_values)
       IN  /\ ui' = ui \o out.writes
           /\ trace' = trace \o out.writes
           /\ spillover_values' = out.spillover_values
    /\ pc' = pc + 1
    /\ UNCHANGED <<plan, messages, err, variables, heap, resource_values,
                   resource_value_index, client, stores, executions>>

\* after the loop: the pool is written, and execute returns
DisplayWriteSpillover ==
    /\ pc = Len(plan) + 1
    /\ ui' = ui \o write_spillover(spillover_values)
    /\ pc' = 0
    /\ UNCHANGED <<plan, messages, err, variables, heap, resource_values,
                   resource_value_index, client, stores, trace, executions,
                   spillover_values>>

NextDisplay ==
    \/ DisplayExecute
    \/ DisplayInstruction
    \/ DisplayWriteSpillover

PoolDisplay ==
    { APICall(1, "update_function",
              Dict(<<Item("FunctionName", F1),
                     Item("Layers", List(<<Str(<<"l1">>)>>)),
                     Item("Tags", Dict(<<>>)),
                     Item("Environment", Dict(<<Item("k", Str(<<"v">>))>>))>>),
              NoOutputVar),
      APICall(2, "create_function",
              Dict(<<Item("Layers", List(<<Str(<<"l2">>)>>)),
                     Item("ZipFile", Bytes(MAX_BYTE_LENGTH + 1)),
                     Item("Hash", Bytes(MAX_BYTE_LENGTH)),
                     Item("Description", Str(<<>>))>>),
              "arn"),
      StoreValue(3, "cfg", Dict(<<Item("layers", List(<<Variable("arn")>>))>>)),
      StoreValue(4, "name", F1),
      RecordResourceValue(5, LambdaFunction, F1, "layers", List(<<Str(<<"l1">>)>>)),
      JPSearch(6, "Arn", "role", "arn") }

\* BaseExecutor.__init__; execute has not been called
InitDisplay ==
    /\ plan \in Plans(PoolDisplay)
    /\ messages \in MessageMaps(PoolDisplay)
    /\ pc = 0
    /\ err = NoErr
    /\ variables = <<>>
    /\ heap = <<>>
    /\ resource_values = <<>>
    /\ resource_value_index = <<>>
    /\ ui = <<>>
    /\ client = <<>>
    /\ trace = <<>>
    /\ stores = <<>>
    /\ spillover_values = <<>>
    /\ executions = 0

SpecDisplay == InitDisplay /\ [][NextDisplay]_vars

\* the instructions rendered so far in this pass
Rendered ==
    IF pc = 0 THEN (IF executions = 0 THEN 0 ELSE Len(plan)) ELSE pc - 1

\* C14: DisplayOnlyExecutor never calls the provider, has no record and no
\* variable, raises nothing, and every pass begins with an empty pool: when the
\* first instruction is about to be rendered the pool is empty, and a pool is
\* never larger than what the instructions of this pass put in it.
C14_DisplayPure ==
    /\ client = <<>>
    /\ resource_values = <<>> /\ heap = <<>> /\ resource_value_index = <<>>
    /\ variables = <<>> /\ stores = <<>>
    /\ err = NoErr
    /\ (pc = 1) => spillover_values = <<>>
    /\ (Rendered = 0) => spillover_values = <<>>

\* a second pass over a plan that fills the pool has ended
C14_Witness ==
    /\ executions = 2 /\ pc = 0
    /\ spillover_values # <<>>
    /\ \E j \in 1..Len(ui) : ui[j].t = "row" /\ ui[j].name = "API_CALL"

-----------------------------------------------------------------------------
(* The pool of a pass *)

\* the items of the dict-valued fields of an instruction, in the order rendered
RECURSIVE EntriesOf(_, _)
EntriesOf(instruction, keys) ==
    IF keys = <<>> THEN <<>>
    ELSE (IF FieldValue(instruction, Head(keys)).t = "dict"
          THEN FieldValue(instruction, Head(keys)).items ELSE <<>>)
         \o EntriesOf(instruction, Tail(keys))
RECURSIVE EntriesUpTo(_)
EntriesUpTo(n) ==
    IF n = 0 THEN <<>>
    ELSE EntriesUpTo(n - 1) \o EntriesOf(plan[n], Fields(plan[n]))

CollectionValued(e) == e.v.t \in {"dict", "list"}
Spilled(e) == CollectionValued(e) /\ ~Falsy(e.v)
Shown(e) == ~Falsy(e.v)

\* the pool holds the values of these entries, one each, in order, under the
\* token of the key and the number of entries before it
PoolHolds(entries) ==
    /\ Len(spillover_values) = Len(entries)
    /\ \A j \in 1..Len(entries) :
          /\ spillover_values[j].v = entries[j].v
          /\ spillover_values[j].k =
                "${" \o Upper(entries[j].k) \o "_" \o ToString(j - 1) \o "}"

DistinctTokens ==
    \A j, h \in 1..Len(spillover_values) :
        j # h => spillover_values[j].k # spillover_values[h].k

\* the lines of the sub-blocks written in this pass
RECURSIVE LinesOf(_)
LinesOf(writes) ==
    IF writes = <<>> THEN <<>>
    ELSE (IF Head(writes).t = "row"
          THEN (IF Head(writes).value.t = "block"
                THEN Tail(Head(writes).value.lines) ELSE <<>>)
          ELSE <<>>)
         \o LinesOf(Tail(writes))

\* one line per entry that is not skipped; the line of a spilled entry shows
\* its token and nothing else
InlineTokens(entries) ==
    LET lines == LinesOf(trace)
    IN  /\ Len(lines) = Len(entries)
        /\ \A m \in 1..Len(entries) :
              /\ lines[m].key = entries[m].k
              /\ Spilled(entries[m]) =>
                    lines[m].value =
                       <<spillover_values[Len(SelectSeq(SubSeq(entries, 1, m),
                                                        Spilled))].k>>
              /\ (~Spilled(entries[m]) /\ entries[m].v.t # "bytes") =>
                    lines[m].value = PyStr(entries[m].v)

\* C16 as stated: every dict or list among the entries of the dict-valued
\* fields rendered so far has its pool entry, and the tokens are distinct.
C16_Original ==
    /\ PoolHolds(SelectSeq(EntriesUpTo(Rendered), CollectionValued))
    /\ DistinctTokens

\* C16: every dict or list that is not empty, among the entries of the
\* dict-valued fields rendered so far, has exactly one pool entry, which holds
\* the value; its line shows the token only; the tokens of a pass are distinct;
\* an empty dict or list is skipped, with no line and no pool entry.
C16_OnePoolEntry ==
    /\ PoolHolds(SelectSeq(EntriesUpTo(Rendered), Spilled))
    /\ DistinctTokens
    /\ InlineTokens(SelectSeq(EntriesUpTo(Rendered), Shown))

\* a pass has ended in which the same key was spilled twice
C16_Witness ==
    /\ pc = 0 /\ executions >= 1
    /\ DictHas(spillover_values, "${LAYERS_0}")
    /\ DictHas(spillover_values, "${LAYERS_2}")

-----------------------------------------------------------------------------
(* execute called again on the same Executor *)

\* the call of execute has returned, or an exception has left it
Ended == err # NoErr \/ pc > Len(plan)

\* a later call of execute(plan) on the instance, with the plan given again:
\* the loop starts over; __init__ does not run again and execute assigns to
\* neither self.variables nor the records
StartExecute ==
    /\ Ended /\ executions < MaxExecutes
    /\ executions' = executions + 1
    /\ pc' = 1
    /\ err' = NoErr
    /\ trace' = <<>>
    /\ stores' = <<>>
    /\ UNCHANGED <<plan, messages, variables, heap, resource_values,
                   resource_value_index, ui, client, spillover_values>>

NextReuse ==
    \/ Next
    \/ StartExecute

PoolReuse == {instruction \in PoolResolve : instruction.id \in {1, 4, 5, 6, 7, 8, 9, 12}}

InitReuse ==
    /\ plan \in Plans(PoolReuse)
    /\ messages \in MessageMaps(PoolReuse)
    /\ InitExecutor

SpecReuse == InitReuse /\ [][NextReuse]_vars

\* a call of execute is at its start: no instruction has begun
Starting == pc = 1 /\ err = NoErr /\ stores = <<>>

\* C17: whenever a call of execute starts, the first on the instance or a later
\* one, there is no variable and no resource record.
C17_EmptyAtStart ==
    Starting =>
        /\ variables = <<>>
        /\ resource_values = <<>>
        /\ resource_value_index = <<>>

====
